---- MODULE Spec2Model ----
(***************************************************************************)
(* A model of the ANT driver session of src/ant.go: the I/O pump           *)
(* (Ant.loop), the frame decoder (Ant.decodeLoop), Start/Stop, the command *)
(* layer and the burst-transfer sequencing of SendBurstTransfer.           *)
(*                                                                         *)
(* Go channels of ant.go are unbuffered, so a send and its receive are one *)
(* joint step of the two goroutines; a goroutine whose pc is at a send is  *)
(* "ready" for the select of the peer.                                     *)
(***************************************************************************)
EXTENDS Integers, Sequences, FiniteSets, TLC

VARIABLES
    \* ---- session (type Ant) and its goroutines
    pcMain,     \* the goroutine that calls Start() and Stop()
    buffer,     \* dev.buffer: "unset" | "alloc" | "nil"
    driver,     \* the transport: "new" | "open" | "openFailed" | "closed"
    closed,     \* the channels of the session that have been closed
    pcLoop,     \* position of Ant.loop
    d,          \* the message received from dev.write in Ant.loop
    fwd,        \* the bytes of dev.buffer[:i] not yet sent to dev.decoder
    loopPanic,  \* Ant.loop is unwinding a panic
    pcDec,      \* position of Ant.decodeLoop
    buf,        \* the bytes of buf filled so far in decodeLoop
    size,       \* int(length+4) of decodeLoop
    decPanic,   \* Ant.decodeLoop is unwinding a panic
    crashed,    \* the process was aborted by an unrecovered panic
    \* ---- the environment
    inbound,    \* all the bytes the transport delivers in this run
    stream,     \* bytes the transport will still deliver to Read
    wlog,       \* the calls of driver.Write so far: <<bytes, ok>>
    consumer,   \* the application reading dev.read: "busy" | "waiting"
    emitted,    \* the messages received from dev.read
    dropped,    \* the messages decodeLoop could not hand over
    decCalls,   \* the buffers passed to Decode
    ioAfter,    \* the pump called the transport after Stop() had returned
    \* ---- a goroutine of the application that issues commands
    prog,       \* the commands it issues, in order
    ip,         \* the index of its current command
    pcCall,     \* "idle" | "send" | "panicked"
    offer,      \* the channel and message of its pending send
    \* ---- what has happened so far
    received,   \* the bytes decodeLoop has received from dev.decoder
    invokedAt,  \* "running" when the pending send was reached between Start() and Stop()
    starts,     \* the calls of Start() so far
    \* ---- one call of SendBurstTransfer against a receiving stub
    bChannel, bLen, bPc, bI, bPackets, bSent

sessionVars == <<pcMain, buffer, driver, closed, pcLoop, d, fwd, loopPanic,
                 pcDec, buf, size, decPanic, crashed>>
envVars     == <<inbound, stream, wlog, consumer, emitted, dropped, decCalls, ioAfter>>
callVars    == <<prog, ip, pcCall, offer>>
burstVars   == <<bChannel, bLen, bPc, bI, bPackets, bSent>>
histVars    == <<received, invokedAt, starts>>
vars        == <<sessionVars, envVars, callVars, burstVars, histVars>>

----------------------------------------------------------------------------
(* Bounds of the model *)

\* dev.driver.BufferSize(): the most bytes one Read returns
BufferSize == 2
\* the largest payload, in 8-byte packets, given to SendBurstTransfer
MaxPackets == 258
\* the radio channel handles 0..MaxChannel are tried together with 31
MaxChannel == 2

----------------------------------------------------------------------------
(* uint8 arithmetic *)

U8(x) == x % 256

RECURSIVE OrN(_, _, _)
OrN(a, b, n) ==
    IF n = 0 THEN 0
    ELSE (IF a % 2 = 1 \/ b % 2 = 1 THEN 1 ELSE 0) + 2 * OrN(a \div 2, b \div 2, n - 1)

RECURSIVE AndN(_, _, _)
AndN(a, b, n) ==
    IF n = 0 THEN 0
    ELSE (IF a % 2 = 1 /\ b % 2 = 1 THEN 1 ELSE 0) + 2 * AndN(a \div 2, b \div 2, n - 1)

RECURSIVE XorN(_, _, _)
XorN(a, b, n) ==
    IF n = 0 THEN 0
    ELSE ((a + b) % 2) + 2 * XorN(a \div 2, b \div 2, n - 1)

Or8(a, b)  == OrN(a, b, 8)
And8(a, b) == AndN(a, b, 8)
\* binary.LittleEndian.PutUint16
PutUint16(v) == <<v % 256, (v \div 256) % 256>>
Xor8(a, b) == XorN(a, b, 8)
Shl8(a, k) == U8(a * (2 ^ k))

----------------------------------------------------------------------------
(* Messages and the frame codec (message.go, not part of src/) *)

MESG_TX_SYNC              == 164
MESG_BROADCAST_DATA_ID    == 78
MESG_ACKNOWLEDGED_DATA_ID == 79
MESG_BURST_DATA_ID        == 80
MESG_RADIO_TX_POWER_ID    == 71
MESG_UNASSIGN_CHANNEL_ID       == 65
MESG_ASSIGN_CHANNEL_ID         == 66
MESG_CHANNEL_MESG_PERIOD_ID    == 67
MESG_CHANNEL_SEARCH_TIMEOUT_ID == 68
MESG_CHANNEL_RADIO_FREQ_ID     == 69
MESG_NETWORK_KEY_ID            == 70
MESG_SYSTEM_RESET_ID           == 74
MESG_OPEN_CHANNEL_ID           == 75
MESG_CLOSE_CHANNEL_ID          == 76
MESG_CHANNEL_ID_ID             == 81
MESG_ID_LIST_ADD_ID            == 89
MESG_OPEN_RX_SCAN_ID           == 91
MESG_CHANNEL_RADIO_TX_POWER_ID == 96
\* the size constant that RequestMessage passes as the message id
MESG_REQUEST_SIZE              == 2
RADIO_TX_POWER_LVL_MASK        == 3

NewMessage(id, data) == [id |-> id, data |-> data]

\* the XOR of s[lo..hi]
RECURSIVE XorRange(_, _, _)
XorRange(s, lo, hi) ==
    IF lo > hi THEN 0
    ELSE IF lo = hi THEN s[lo]
    ELSE Xor8(XorRange(s, lo, (lo + hi) \div 2),
              XorRange(s, ((lo + hi) \div 2) + 1, hi))

XorAll(s) == XorRange(s, 1, Len(s))

\* [SYNC][LENGTH][MESSAGE_ID][PAYLOAD][CHECKSUM]
Encode(m) ==
    LET body == <<MESG_TX_SYNC, Len(m.data), m.id>> \o m.data
    IN  body \o <<XorAll(body)>>

DecodeOk(b) ==
    /\ Len(b) >= 4
    /\ b[1] = MESG_TX_SYNC
    /\ b[2] = Len(b) - 4
    /\ XorAll(SubSeq(b, 1, Len(b) - 1)) = b[Len(b)]

Decode(b) == NewMessage(b[3], SubSeq(b, 4, Len(b) - 1))

----------------------------------------------------------------------------
(* The payload handed to a command: data[k] for 0 <= k < n *)

DataByte(k) == U8(k + 1 + (k \div 256))
Data(n)     == [k \in 1..n |-> DataByte(k - 1)]
DataSlice(lo, hi) == [k \in 1..(hi - lo) |-> DataByte(lo + k - 1)]

----------------------------------------------------------------------------
(* SendBurstTransfer: the packet count, the sequence field and the slice *)

Packets(len) == U8(len \div 8)

Sequence(i, packets) ==
    LET sequence == (U8(i - 1) % 3) + 1
    IN  IF i = 0 THEN 0
        ELSE IF i = U8(packets - 1) THEN Or8(sequence, 4)
        ELSE sequence

ChannelSeq(channel, sequence) == Or8(channel, Shl8(sequence, 5))

SliceLo(i) == U8(i * 8)
SliceHi(i) == U8(U8(i * 8) + 8)
\* data[lo:hi] of a slice of len bytes
SliceOk(lo, hi, len) == lo <= hi /\ hi <= len

BurstPacketMessage(channelSeq, data) ==
    NewMessage(MESG_BURST_DATA_ID, <<channelSeq>> \o data)

----------------------------------------------------------------------------
(* The command layer: what one call does before it blocks on its channel.  *)
(* A call panics (InvalidArgument), returns, or offers msg on channel ch.   *)

\* the nil *Message: no call of NewMessage builds it, as an id is a uint8
NoMsg == [id |-> 0 - 1, data |-> <<>>]
NoOffer == [ch |-> "none", msg |-> NoMsg]
Panics == [kind |-> "panic", ch |-> "none", msg |-> NoMsg]
Returns == [kind |-> "return", ch |-> "none", msg |-> NoMsg]
Sends(ch, msg) == [kind |-> "send", ch |-> ch, msg |-> msg]

UnAssignChannel(channel) ==
    Sends("write", NewMessage(MESG_UNASSIGN_CHANNEL_ID, <<channel>>))

AssignChannel(channel, channelType, networkNumber) ==
    Sends("write", NewMessage(MESG_ASSIGN_CHANNEL_ID,
                              <<channel, channelType, networkNumber>>))

AssignChannelExt(channel, channelType, networkNumber, ExtFlags) ==
    Sends("write", NewMessage(MESG_ASSIGN_CHANNEL_ID,
                              <<channel, channelType, networkNumber, ExtFlags>>))

SetChannelId(channel, deviceNum, deviceType, transmissionType) ==
    Sends("write", NewMessage(MESG_CHANNEL_ID_ID,
              <<channel>> \o PutUint16(deviceNum) \o <<deviceType, transmissionType>>))

SetChannelPeriod(channel, messagePeriod) ==
    Sends("write", NewMessage(MESG_CHANNEL_MESG_PERIOD_ID,
                              <<channel>> \o PutUint16(messagePeriod)))

SetChannelSearchTimeout(channel, messagePeriod) ==
    Sends("write", NewMessage(MESG_CHANNEL_SEARCH_TIMEOUT_ID, <<channel, messagePeriod>>))

SetChannelRFFreq(channel, rfFreq) ==
    Sends("write", NewMessage(MESG_CHANNEL_RADIO_FREQ_ID, <<channel, rfFreq>>))

\* key is the [8]uint8 argument
SetNetworkKey(channel, key) ==
    Sends("write", NewMessage(MESG_NETWORK_KEY_ID, <<channel>> \o key))

SetTransmitPower(power) ==
    Sends("write", NewMessage(MESG_CHANNEL_RADIO_TX_POWER_ID,
                              <<0, And8(power, RADIO_TX_POWER_LVL_MASK)>>))

ResetSystem == Sends("write", NewMessage(MESG_SYSTEM_RESET_ID, <<0>>))

OpenChannel(channel) == Sends("write", NewMessage(MESG_OPEN_CHANNEL_ID, <<channel>>))

CloseChannel(channel) == Sends("write", NewMessage(MESG_CLOSE_CHANNEL_ID, <<channel>>))

RequestMessage(channel, messageId) ==
    Sends("write", NewMessage(MESG_REQUEST_SIZE, <<channel, messageId>>))

AddChannelID(channel, deviceNum, deviceType, transmissionType, index) ==
    Sends("write", NewMessage(MESG_ID_LIST_ADD_ID,
              <<channel>> \o PutUint16(deviceNum)
                  \o <<deviceType, transmissionType, index>>))

ConfigList(channel, listSize, exclude) ==
    Sends("write", NewMessage(MESG_ID_LIST_ADD_ID, <<channel, listSize, exclude>>))

OpenRxScanMode == Sends("write", NewMessage(MESG_OPEN_RX_SCAN_ID, <<0, 1>>))

WriteMessage(messageID, len) ==
    Sends("write", NewMessage(messageID, Data(len)))

SetSearchWaveform(channel, searchWaveform) ==
    IF searchWaveform # 316 /\ searchWaveform # 97 THEN Panics
    ELSE Sends("write", NewMessage(MESG_RADIO_TX_POWER_ID,
                 <<channel, searchWaveform % 256, searchWaveform \div 256>>))

SendBroadcastData(channel, len) ==
    IF len # 8 THEN Panics
    ELSE Sends("write", NewMessage(MESG_BROADCAST_DATA_ID, <<channel>> \o Data(len)))

SendAcknowledgedData(channel, len) ==
    IF len # 8 THEN Panics
    ELSE Sends("writeInTimeslot",
               NewMessage(MESG_ACKNOWLEDGED_DATA_ID, <<channel>> \o Data(len)))

SendBurstTransferPacket(channelSeq, data) ==
    IF Len(data) # 8 THEN Panics
    ELSE Sends("writeInTimeslot", BurstPacketMessage(channelSeq, data))

\* SendBurstTransfer without the check of len(data)%8
SendBurstTransferUnchecked(channel, len) ==
    IF ~(0 < Packets(len)) THEN Returns
    ELSE IF ~SliceOk(SliceLo(0), SliceHi(0), len) THEN Panics
    ELSE SendBurstTransferPacket(
             ChannelSeq(channel, Sequence(0, Packets(len))),
             DataSlice(SliceLo(0), SliceHi(0)))

\* SendBurstTransfer up to its first send (i = 0); the rest of its loop runs only
\* once that send has been received, see BurstIter
SendBurstTransfer(channel, len) ==
    IF len % 8 # 0 THEN Panics
    ELSE IF ~(0 < Packets(len)) THEN Returns
    ELSE IF ~SliceOk(SliceLo(0), SliceHi(0), len) THEN Panics
    ELSE SendBurstTransferPacket(
             ChannelSeq(channel, Sequence(0, Packets(len))),
             DataSlice(SliceLo(0), SliceHi(0)))

\* a call of op: a and b are its first two arguments, rest the arguments
\* after them (for SetNetworkKey, the bytes of the key)
CmdN(op, a, b, rest) == [op |-> op, a |-> a, b |-> b, rest |-> rest]
Cmd(op, a, b) == CmdN(op, a, b, <<>>)

Call(c) ==
    CASE c.op = "WriteMessage"            -> WriteMessage(c.a, c.b)
      [] c.op = "SetSearchWaveform"       -> SetSearchWaveform(c.a, c.b)
      [] c.op = "SendBroadcastData"       -> SendBroadcastData(c.a, c.b)
      [] c.op = "SendAcknowledgedData"    -> SendAcknowledgedData(c.a, c.b)
      [] c.op = "SendBurstTransferPacket" -> SendBurstTransferPacket(c.a, Data(c.b))
      [] c.op = "SendBurstTransfer"       -> SendBurstTransfer(c.a, c.b)
      [] c.op = "UnAssignChannel"         -> UnAssignChannel(c.a)
      [] c.op = "AssignChannel"           -> AssignChannel(c.a, c.b, c.rest[1])
      [] c.op = "AssignChannelExt"        -> AssignChannelExt(c.a, c.b, c.rest[1], c.rest[2])
      [] c.op = "SetChannelId"            -> SetChannelId(c.a, c.b, c.rest[1], c.rest[2])
      [] c.op = "SetChannelPeriod"        -> SetChannelPeriod(c.a, c.b)
      [] c.op = "SetChannelSearchTimeout" -> SetChannelSearchTimeout(c.a, c.b)
      [] c.op = "SetChannelRFFreq"        -> SetChannelRFFreq(c.a, c.b)
      [] c.op = "SetNetworkKey"           -> SetNetworkKey(c.a, c.rest)
      [] c.op = "SetTransmitPower"        -> SetTransmitPower(c.a)
      [] c.op = "ResetSystem"             -> ResetSystem
      [] c.op = "OpenChannel"             -> OpenChannel(c.a)
      [] c.op = "CloseChannel"            -> CloseChannel(c.a)
      [] c.op = "RequestMessage"          -> RequestMessage(c.a, c.b)
      [] c.op = "AddChannelID"            -> AddChannelID(c.a, c.b, c.rest[1], c.rest[2], c.rest[3])
      [] c.op = "ConfigList"              -> ConfigList(c.a, c.b, c.rest[1])
      [] c.op = "OpenRxScanMode"          -> OpenRxScanMode

----------------------------------------------------------------------------
(* Inbound byte streams and command programs the model is run on *)

\* the largest LENGTH byte of the well-formed inbound frames
MaxLength == 1
\* the most queued commands one caller issues in a row
MaxQueued == 3

Min(a, b) == IF a < b THEN a ELSE b

FrameOf(L, id) == Encode(NewMessage(id, Data(L)))
\* the frame with its checksum byte flipped
Corrupt(f) == [k \in 1..Len(f) |-> IF k = Len(f) THEN Xor8(f[k], 255) ELSE f[k]]

\* LENGTH bytes for which length+4 does not fit a byte
WrapLengths == {252, 253, 254, 255}

\* a frame with a bad checksum, then a good frame
Resync(L)     == Corrupt(FrameOf(L, 1)) \o FrameOf(0, 2)
\* the first n bytes of a frame
Partial(L, n) == SubSeq(FrameOf(L, 1), 1, n)

ResyncStreams  == {Resync(L) : L \in (0..MaxLength) \cup {252}}
\* the proper prefixes of a frame of LENGTH L
Partials(L) == {Partial(L, n) : n \in 0..(L + 3)}
ProperPartials == UNION {Partials(L) : L \in 0..MaxLength}
WrapPartials == {Partial(L, n) : L \in WrapLengths, n \in {2, 3}}
PartialStreams == ProperPartials \cup WrapPartials
Streams ==
    ResyncStreams \cup PartialStreams
        \cup {FrameOf(L, 1) : L \in 0..MaxLength}
        \cup {<<0>> \o FrameOf(0, 2)}

QueuedProg(k) == [j \in 1..k |-> Cmd("WriteMessage", j, j % 2)]
QueuedProgs == {QueuedProg(k) : k \in 0..MaxQueued}

Programs ==
    QueuedProgs
        \cup {<<Cmd(op, 1, n)>> :
                op \in {"SendBroadcastData", "SendAcknowledgedData",
                        "SendBurstTransferPacket"},
                n \in {0, 7, 8, 9}}
        \cup {<<Cmd("SendBurstTransfer", 2, n)>> : n \in {0, 8, 12, 16, 20}}
        \cup {<<Cmd("SetSearchWaveform", 1, w)>> : w \in {97, 316, 100}}
        \cup {<<Cmd("WriteMessage", 1, 0), Cmd("SendBroadcastData", 1, 7)>>,
              <<Cmd("WriteMessage", 1, 1), Cmd("SendAcknowledgedData", 0, 8)>>}

\* one call of each configuration and control command, and a WriteMessage
\* of id 0 with no data
ConfigPrograms ==
    {<<Cmd("UnAssignChannel", 1, 0)>>,
     <<CmdN("AssignChannel", 1, 16, <<0>>)>>,
     <<CmdN("AssignChannelExt", 1, 16, <<0, 1>>)>>,
     <<CmdN("SetChannelId", 1, 4660, <<120, 1>>)>>,
     <<Cmd("SetChannelPeriod", 1, 8070)>>,
     <<Cmd("SetChannelSearchTimeout", 1, 12)>>,
     <<Cmd("SetChannelRFFreq", 1, 57)>>,
     <<CmdN("SetNetworkKey", 0, 0, Data(8))>>,
     <<Cmd("SetTransmitPower", 7, 0)>>,
     <<Cmd("ResetSystem", 0, 0)>>,
     <<Cmd("OpenChannel", 1, 0)>>,
     <<Cmd("CloseChannel", 1, 0)>>,
     <<Cmd("RequestMessage", 1, 81)>>,
     <<CmdN("AddChannelID", 1, 4660, <<120, 1, 2>>)>>,
     <<CmdN("ConfigList", 1, 2, <<0>>)>>,
     <<Cmd("OpenRxScanMode", 0, 0)>>,
     <<Cmd("WriteMessage", 0, 0)>>}

\* every stream with the queued programs, every program with a short stream
Scenarios ==
    (Streams \X QueuedProgs) \cup ({<<>>, FrameOf(0, 2)} \X Programs)
        \cup ({<<>>} \X ConfigPrograms)

----------------------------------------------------------------------------
(* The session *)

SessionCreated ==
    /\ pcMain = "created" /\ buffer = "unset" /\ driver = "new"
    /\ closed = {}
    /\ pcLoop = "notStarted" /\ d = NoMsg /\ fwd = <<>> /\ loopPanic = FALSE
    /\ pcDec = "notStarted" /\ buf = <<>> /\ size = 0 /\ decPanic = FALSE
    /\ crashed = FALSE
    /\ wlog = <<>> /\ consumer = "busy" /\ emitted = <<>> /\ dropped = <<>>
    /\ decCalls = <<>> /\ ioAfter = FALSE
    /\ ip = 1 /\ pcCall = "idle" /\ offer = NoOffer
    /\ received = <<>> /\ invokedAt = "none" /\ starts = 0

BurstIdle ==
    /\ bChannel = 0 /\ bLen = 0 /\ bPc = "none" /\ bI = 0 /\ bPackets = 0
    /\ bSent = <<>>

Init ==
    /\ SessionCreated
    /\ BurstIdle
    /\ \E sc \in Scenarios : inbound = sc[1] /\ stream = sc[1] /\ prog = sc[2]

\* ---- Start and Stop

Start ==
    /\ ~crashed
    /\ pcMain = "created"
    /\ \E e \in BOOLEAN : driver' = IF e THEN "openFailed" ELSE "open"
    /\ buffer' = "alloc"
    /\ pcLoop' = "select"
    /\ pcDec' = "sync"
    /\ pcMain' = "running"
    /\ UNCHANGED <<closed, d, fwd, loopPanic, buf, size, decPanic, crashed>>
    /\ UNCHANGED <<envVars, callVars, burstVars>>
    /\ starts' = starts + 1
    /\ UNCHANGED <<received, invokedAt>>

\* StopCall with dev.buffer = nil ahead of the send on dev.stopper
StopCallReleasesFirst ==
    /\ ~crashed
    /\ pcMain = "running"
    /\ pcMain' = "stopSend"
    /\ buffer' = "nil"
    /\ UNCHANGED <<driver, closed, pcLoop, d, fwd, loopPanic,
                   pcDec, buf, size, decPanic, crashed>>
    /\ UNCHANGED <<envVars, callVars, burstVars>>
    /\ UNCHANGED histVars

\* Stop() is called: it blocks in dev.stopper <- struct{}{}
StopCall ==
    /\ ~crashed
    /\ pcMain = "running"
    /\ pcMain' = "stopSend"
    /\ UNCHANGED <<buffer, driver, closed, pcLoop, d, fwd, loopPanic,
                   pcDec, buf, size, decPanic, crashed>>
    /\ UNCHANGED <<envVars, callVars, burstVars>>
    /\ UNCHANGED histVars

StopReleaseBuffer ==
    /\ ~crashed
    /\ pcMain = "stopNil"
    /\ buffer' = "nil"
    /\ pcMain' = "stopDone1"
    /\ UNCHANGED <<driver, closed, pcLoop, d, fwd, loopPanic,
                   pcDec, buf, size, decPanic, crashed>>
    /\ UNCHANGED <<envVars, callVars, burstVars>>
    /\ UNCHANGED histVars

\* AfterDone with Stop() waiting for a single completion signal
AfterDoneOnce(pc) == "stopRet"

\* the position of Stop() after one more <-dev.done
AfterDone(pc) == IF pc = "stopDone1" THEN "stopDone2" ELSE "stopRet"

StopReturn ==
    /\ ~crashed
    /\ pcMain = "stopRet"
    /\ pcMain' = "stopped"
    /\ UNCHANGED <<buffer, driver, closed, pcLoop, d, fwd, loopPanic,
                   pcDec, buf, size, decPanic, crashed>>
    /\ UNCHANGED <<envVars, callVars, burstVars>>
    /\ UNCHANGED histVars

\* ---- Ant.loop, the I/O pump

SenderOnWrite == pcCall = "send" /\ offer.ch = "write" /\ "write" \notin closed

\* case <-dev.stopper: return
LoopSelectStop ==
    /\ ~crashed
    /\ pcLoop = "select"
    /\ pcMain = "stopSend"
    /\ pcMain' = "stopNil"
    /\ pcLoop' = "deferCloseTimeslot"
    /\ UNCHANGED <<buffer, driver, closed, d, fwd, loopPanic,
                   pcDec, buf, size, decPanic, crashed>>
    /\ UNCHANGED <<envVars, callVars, burstVars>>
    /\ UNCHANGED histVars

\* LoopSelectWrite with a case body that does not write the message received
LoopSelectWriteInert ==
    /\ ~crashed
    /\ pcLoop = "select"
    /\ SenderOnWrite
    /\ d' = offer.msg
    /\ pcLoop' = "select"
    /\ pcCall' = "idle"
    /\ ip' = ip + 1
    /\ offer' = NoOffer
    /\ UNCHANGED <<pcMain, buffer, driver, closed, fwd, loopPanic,
                   pcDec, buf, size, decPanic, crashed>>
    /\ UNCHANGED <<envVars, prog, burstVars>>
    /\ invokedAt' = "none"
    /\ UNCHANGED <<received, starts>>

\* case d := <-dev.write, together with the caller's dev.write <- message
LoopSelectWrite ==
    /\ ~crashed
    /\ pcLoop = "select"
    /\ SenderOnWrite
    /\ d' = offer.msg
    /\ pcLoop' = "write"
    /\ pcCall' = "idle"
    /\ ip' = ip + 1
    /\ offer' = NoOffer
    /\ UNCHANGED <<pcMain, buffer, driver, closed, fwd, loopPanic,
                   pcDec, buf, size, decPanic, crashed>>
    /\ UNCHANGED <<envVars, prog, burstVars>>
    /\ invokedAt' = "none"
    /\ UNCHANGED <<received, starts>>

\* default: taken only when no case of the select can proceed
LoopSelectDefault ==
    /\ ~crashed
    /\ pcLoop = "select"
    /\ pcMain # "stopSend"
    /\ ~SenderOnWrite
    /\ "write" \notin closed
    /\ pcLoop' = "read"
    /\ UNCHANGED <<pcMain, buffer, driver, closed, d, fwd, loopPanic,
                   pcDec, buf, size, decPanic, crashed>>
    /\ UNCHANGED <<envVars, callVars, burstVars>>
    /\ UNCHANGED histVars

\* dev.driver.Write(d.Encode()); panic(err) on failure
LoopWrite ==
    /\ ~crashed
    /\ pcLoop = "write"
    /\ d # NoMsg
    /\ \E ok \in BOOLEAN :
         /\ wlog' = Append(wlog, <<Encode(d), ok>>)
         /\ pcLoop' = IF ok THEN "select" ELSE "deferCloseTimeslot"
         /\ loopPanic' = ~ok
    /\ ioAfter' = (ioAfter \/ pcMain = "stopped")
    /\ UNCHANGED <<pcMain, buffer, driver, closed, d, fwd,
                   pcDec, buf, size, decPanic, crashed>>
    /\ UNCHANGED <<inbound, stream, consumer, emitted, dropped, decCalls>>
    /\ UNCHANGED <<callVars, burstVars>>
    /\ UNCHANGED histVars

\* i, err := dev.driver.Read(dev.buffer): an error (n = -1), or the next n bytes
LoopRead ==
    /\ ~crashed
    /\ pcLoop = "read"
    /\ \E n \in -1..Min(BufferSize, Len(stream)) :
         /\ fwd' = IF n > 0 THEN SubSeq(stream, 1, n) ELSE <<>>
         /\ stream' = IF n > 0 THEN SubSeq(stream, n + 1, Len(stream)) ELSE stream
         /\ pcLoop' = IF n > 0 THEN "forward" ELSE "select"
    /\ ioAfter' = (ioAfter \/ pcMain = "stopped")
    /\ UNCHANGED <<pcMain, buffer, driver, closed, d, loopPanic,
                   pcDec, buf, size, decPanic, crashed>>
    /\ UNCHANGED <<inbound, wlog, consumer, emitted, dropped, decCalls>>
    /\ UNCHANGED <<callVars, burstVars>>
    /\ UNCHANGED histVars

\* LoopSendByte with a loop that ends after its first send
LoopSendByteOnce ==
    /\ pcLoop = "forward"
    /\ "decoder" \notin closed
    /\ fwd' = <<>>
    /\ pcLoop' = "select"
    /\ received' = Append(received, Head(fwd))

\* dev.decoder <- v for the next v of dev.buffer[:i]
LoopSendByte ==
    /\ pcLoop = "forward"
    /\ "decoder" \notin closed
    /\ fwd' = Tail(fwd)
    /\ pcLoop' = IF Tail(fwd) = <<>> THEN "select" ELSE "forward"
    /\ received' = Append(received, Head(fwd))

\* the deferred calls of loop(), last deferred first; the close of a channel
\* that is already closed panics, and the deferred calls that remain still run
LoopDeferCloseTimeslot ==
    /\ ~crashed
    /\ pcLoop = "deferCloseTimeslot"
    /\ closed' = closed \cup {"writeInTimeslot"}
    /\ loopPanic' = (loopPanic \/ "writeInTimeslot" \in closed)
    /\ pcLoop' = "deferCloseWrite"
    /\ UNCHANGED <<pcMain, buffer, driver, d, fwd,
                   pcDec, buf, size, decPanic, crashed>>
    /\ UNCHANGED <<envVars, callVars, burstVars>>
    /\ UNCHANGED histVars

LoopDeferCloseWrite ==
    /\ ~crashed
    /\ pcLoop = "deferCloseWrite"
    /\ closed' = closed \cup {"write"}
    /\ loopPanic' = (loopPanic \/ "write" \in closed)
    /\ pcLoop' = "deferCloseDecoder"
    /\ UNCHANGED <<pcMain, buffer, driver, d, fwd,
                   pcDec, buf, size, decPanic, crashed>>
    /\ UNCHANGED <<envVars, callVars, burstVars>>
    /\ UNCHANGED histVars

LoopDeferCloseDecoder ==
    /\ ~crashed
    /\ pcLoop = "deferCloseDecoder"
    /\ closed' = closed \cup {"decoder"}
    /\ loopPanic' = (loopPanic \/ "decoder" \in closed)
    /\ pcLoop' = "deferDriverClose"
    /\ UNCHANGED <<pcMain, buffer, driver, d, fwd,
                   pcDec, buf, size, decPanic, crashed>>
    /\ UNCHANGED <<envVars, callVars, burstVars>>
    /\ UNCHANGED histVars

LoopDeferDriverClose ==
    /\ ~crashed
    /\ pcLoop = "deferDriverClose"
    /\ driver' = "closed"
    /\ pcLoop' = "deferDone"
    /\ UNCHANGED <<pcMain, buffer, closed, d, fwd, loopPanic,
                   pcDec, buf, size, decPanic, crashed>>
    /\ UNCHANGED <<envVars, callVars, burstVars>>
    /\ UNCHANGED histVars

\* dev.done <- struct{}{} of loop(), together with a <-dev.done of Stop()
LoopDone ==
    /\ ~crashed
    /\ pcLoop = "deferDone"
    /\ pcMain \in {"stopDone1", "stopDone2"}
    /\ pcMain' = AfterDone(pcMain)
    /\ pcLoop' = "exited"
    /\ UNCHANGED <<buffer, driver, closed, d, fwd, loopPanic,
                   pcDec, buf, size, decPanic, crashed>>
    /\ UNCHANGED <<envVars, callVars, burstVars>>
    /\ UNCHANGED histVars

\* ---- Ant.decodeLoop, the frame decoder

\* sync, ok := <-dev.decoder
DecodeSync ==
    /\ ~crashed
    /\ pcDec = "sync"
    /\ LoopSendByte
    /\ pcDec' = IF Head(fwd) # MESG_TX_SYNC THEN "sync" ELSE "length"
    /\ UNCHANGED <<pcMain, buffer, driver, closed, d, loopPanic,
                   buf, size, decPanic, crashed>>
    /\ UNCHANGED <<envVars, callVars, burstVars>>
    /\ UNCHANGED <<invokedAt, starts>>

\* int(length+4), computed in uint8
FrameSize(length) == U8(length + 4)

\* length, ok := <-dev.decoder; buf := make([]byte, length+4); buf[0], buf[1] = ...
DecodeLength ==
    /\ ~crashed
    /\ pcDec = "length"
    /\ LoopSendByte
    /\ size' = FrameSize(Head(fwd))
    /\ IF size' < 2
       THEN /\ decPanic' = TRUE
            /\ buf' = <<>>
            /\ pcDec' = "deferCloseRead"
       ELSE /\ decPanic' = decPanic
            /\ buf' = <<MESG_TX_SYNC, Head(fwd)>>
            /\ pcDec' = IF 2 < size' THEN "assemble" ELSE "decode"
    /\ UNCHANGED <<pcMain, buffer, driver, closed, d, loopPanic, crashed>>
    /\ UNCHANGED <<envVars, callVars, burstVars>>
    /\ UNCHANGED <<invokedAt, starts>>

\* buf[i], ok = <-dev.decoder for i := 2; i < int(length+4); i++
DecodeAssemble ==
    /\ ~crashed
    /\ pcDec = "assemble"
    /\ LoopSendByte
    /\ buf' = Append(buf, Head(fwd))
    /\ pcDec' = IF Len(buf') < size THEN "assemble" ELSE "decode"
    /\ UNCHANGED <<pcMain, buffer, driver, closed, d, loopPanic,
                   size, decPanic, crashed>>
    /\ UNCHANGED <<envVars, callVars, burstVars>>
    /\ UNCHANGED <<invokedAt, starts>>

\* a receive on the closed dev.decoder: !ok, return
DecodeClosed ==
    /\ ~crashed
    /\ pcDec \in {"sync", "length", "assemble"}
    /\ "decoder" \in closed
    /\ pcDec' = "deferCloseRead"
    /\ UNCHANGED <<pcMain, buffer, driver, closed, pcLoop, d, fwd, loopPanic,
                   buf, size, decPanic, crashed>>
    /\ UNCHANGED <<envVars, callVars, burstVars>>
    /\ UNCHANGED histVars

\* msg, err := Decode(buf); if err != nil { continue }
DecodeReject ==
    /\ ~crashed
    /\ pcDec = "decode"
    /\ ~DecodeOk(buf)
    /\ decCalls' = Append(decCalls, buf)
    /\ pcDec' = "sync"
    /\ UNCHANGED <<pcMain, buffer, driver, closed, pcLoop, d, fwd, loopPanic,
                   buf, size, decPanic, crashed>>
    /\ UNCHANGED <<inbound, stream, wlog, consumer, emitted, dropped, ioAfter>>
    /\ UNCHANGED <<callVars, burstVars>>
    /\ UNCHANGED histVars

\* select { case dev.read <- msg: ... }, with a receiver ready on dev.read
DecodePublish ==
    /\ ~crashed
    /\ pcDec = "decode"
    /\ DecodeOk(buf)
    /\ consumer = "waiting"
    /\ decCalls' = Append(decCalls, buf)
    /\ emitted' = Append(emitted, Decode(buf))
    /\ consumer' = "busy"
    /\ pcDec' = "sync"
    /\ UNCHANGED <<pcMain, buffer, driver, closed, pcLoop, d, fwd, loopPanic,
                   buf, size, decPanic, crashed>>
    /\ UNCHANGED <<inbound, stream, wlog, dropped, ioAfter>>
    /\ UNCHANGED <<callVars, burstVars>>
    /\ UNCHANGED histVars

\* DecodeDrop with no default case: dev.read <- msg waits for a receiver
DecodeDropWaits == DecodePublish

\* select { ... default: }, with no receiver ready on dev.read
DecodeDrop ==
    /\ ~crashed
    /\ pcDec = "decode"
    /\ DecodeOk(buf)
    /\ consumer # "waiting"
    /\ decCalls' = Append(decCalls, buf)
    /\ dropped' = Append(dropped, Decode(buf))
    /\ pcDec' = "sync"
    /\ UNCHANGED <<pcMain, buffer, driver, closed, pcLoop, d, fwd, loopPanic,
                   buf, size, decPanic, crashed>>
    /\ UNCHANGED <<inbound, stream, wlog, consumer, emitted, ioAfter>>
    /\ UNCHANGED <<callVars, burstVars>>
    /\ UNCHANGED histVars

\* defer close(dev.read)
DecodeDeferCloseRead ==
    /\ ~crashed
    /\ pcDec = "deferCloseRead"
    /\ closed' = closed \cup {"read"}
    /\ decPanic' = (decPanic \/ "read" \in closed)
    /\ pcDec' = "deferDone"
    /\ UNCHANGED <<pcMain, buffer, driver, pcLoop, d, fwd, loopPanic,
                   buf, size, crashed>>
    /\ UNCHANGED <<envVars, callVars, burstVars>>
    /\ UNCHANGED histVars

\* dev.done <- struct{}{} of decodeLoop(), together with a <-dev.done of Stop()
DecodeDone ==
    /\ ~crashed
    /\ pcDec = "deferDone"
    /\ pcMain \in {"stopDone1", "stopDone2"}
    /\ pcMain' = AfterDone(pcMain)
    /\ pcDec' = "exited"
    /\ UNCHANGED <<buffer, driver, closed, pcLoop, d, fwd, loopPanic,
                   buf, size, decPanic, crashed>>
    /\ UNCHANGED <<envVars, callVars, burstVars>>
    /\ UNCHANGED histVars

\* a goroutine that panicked has run its deferred calls: the process aborts
Crash ==
    /\ ~crashed
    /\ \/ pcLoop = "exited" /\ loopPanic
       \/ pcDec = "exited" /\ decPanic
    /\ crashed' = TRUE
    /\ UNCHANGED <<pcMain, buffer, driver, closed, pcLoop, d, fwd, loopPanic,
                   pcDec, buf, size, decPanic>>
    /\ UNCHANGED <<envVars, callVars, burstVars>>
    /\ UNCHANGED histVars

\* ---- the application: a reader of dev.read and a caller of commands

ConsumerWait ==
    /\ ~crashed
    /\ consumer = "busy"
    /\ "read" \notin closed
    /\ consumer' = "waiting"
    /\ UNCHANGED <<inbound, stream, wlog, emitted, dropped, decCalls, ioAfter>>
    /\ UNCHANGED <<sessionVars, callVars, burstVars>>
    /\ UNCHANGED histVars

HasCall == pcCall = "idle" /\ ip <= Len(prog)

\* the call fails its argument check
CallerPanic ==
    /\ ~crashed
    /\ HasCall
    /\ Call(prog[ip]).kind = "panic"
    /\ pcCall' = "panicked"
    /\ UNCHANGED <<prog, ip, offer>>
    /\ UNCHANGED <<sessionVars, envVars, burstVars>>
    /\ UNCHANGED histVars

\* the call has nothing to send
CallerReturn ==
    /\ ~crashed
    /\ HasCall
    /\ Call(prog[ip]).kind = "return"
    /\ ip' = ip + 1
    /\ UNCHANGED <<prog, pcCall, offer>>
    /\ UNCHANGED <<sessionVars, envVars, burstVars>>
    /\ UNCHANGED histVars

\* the call reaches its send, dev.write <- message or dev.writeInTimeslot <- message
CallerSend ==
    /\ ~crashed
    /\ HasCall
    /\ Call(prog[ip]).kind = "send"
    /\ pcCall' = "send"
    /\ offer' = [ch |-> Call(prog[ip]).ch, msg |-> Call(prog[ip]).msg]
    /\ UNCHANGED <<prog, ip>>
    /\ UNCHANGED <<sessionVars, envVars, burstVars>>
    /\ invokedAt' = IF pcMain = "running" THEN "running" ELSE "other"
    /\ UNCHANGED <<received, starts>>

\* a send on a closed channel panics
CallerSendClosed ==
    /\ ~crashed
    /\ pcCall = "send"
    /\ offer.ch \in closed
    /\ pcCall' = "panicked"
    /\ UNCHANGED <<prog, ip, offer>>
    /\ UNCHANGED <<sessionVars, envVars, burstVars>>
    /\ UNCHANGED histVars

Next ==
    \/ Start
    \/ StopCall
    \/ StopReleaseBuffer
    \/ StopReturn
    \/ LoopSelectStop
    \/ LoopSelectWrite
    \/ LoopSelectDefault
    \/ LoopWrite
    \/ LoopRead
    \/ LoopDeferCloseTimeslot
    \/ LoopDeferCloseWrite
    \/ LoopDeferCloseDecoder
    \/ LoopDeferDriverClose
    \/ LoopDone
    \/ DecodeSync
    \/ DecodeLength
    \/ DecodeAssemble
    \/ DecodeClosed
    \/ DecodeReject
    \/ DecodePublish
    \/ DecodeDrop
    \/ DecodeDeferCloseRead
    \/ DecodeDone
    \/ Crash
    \/ ConsumerWait
    \/ CallerPanic
    \/ CallerReturn
    \/ CallerSend
    \/ CallerSendClosed

Spec == Init /\ [][Next]_vars

----------------------------------------------------------------------------
(* A second Start() on the session after Start(); Stop(). MakeAnt makes the  *)
(* channels once and Start() does not make them again.                       *)

\* the most calls of Start() on one session
MaxStarts == 2

\* Start() on a session that Stop() has returned from
Restart ==
    /\ ~crashed
    /\ pcMain = "stopped"
    /\ ~loopPanic /\ ~decPanic
    /\ starts < MaxStarts
    /\ \E e \in BOOLEAN : driver' = IF e THEN "openFailed" ELSE "open"
    /\ buffer' = "alloc"
    /\ pcLoop' = "select"
    /\ d' = NoMsg
    /\ pcDec' = "sync"
    /\ buf' = <<>>
    /\ size' = 0
    /\ pcMain' = "running"
    /\ starts' = starts + 1
    /\ UNCHANGED <<closed, fwd, loopPanic, decPanic, crashed>>
    /\ UNCHANGED <<envVars, callVars, burstVars>>
    /\ UNCHANGED <<received, invokedAt>>

\* case d := <-dev.write on the closed dev.write: d is nil
LoopSelectWriteClosed ==
    /\ ~crashed
    /\ pcLoop = "select"
    /\ "write" \in closed
    /\ d' = NoMsg
    /\ pcLoop' = "write"
    /\ UNCHANGED <<pcMain, buffer, driver, closed, fwd, loopPanic,
                   pcDec, buf, size, decPanic, crashed>>
    /\ UNCHANGED <<envVars, callVars, burstVars>>
    /\ UNCHANGED histVars

\* d.Encode() with d nil: a nil pointer dereference
LoopWriteNil ==
    /\ ~crashed
    /\ pcLoop = "write"
    /\ d = NoMsg
    /\ loopPanic' = TRUE
    /\ pcLoop' = "deferCloseTimeslot"
    /\ UNCHANGED <<pcMain, buffer, driver, closed, d, fwd,
                   pcDec, buf, size, decPanic, crashed>>
    /\ UNCHANGED <<envVars, callVars, burstVars>>
    /\ UNCHANGED histVars

RestartScenarios ==
    ({<<>>, Resync(0)} \X {QueuedProg(0), QueuedProg(2)}) \cup ({<<>>} \X Programs)

InitRestart ==
    /\ SessionCreated
    /\ BurstIdle
    /\ \E sc \in RestartScenarios : inbound = sc[1] /\ stream = sc[1] /\ prog = sc[2]

NextRestart ==
    \/ Next
    \/ Restart
    \/ LoopSelectWriteClosed
    \/ LoopWriteNil

SpecRestart == InitRestart /\ [][NextRestart]_vars

\* The steps of each goroutine. The Go scheduler runs every goroutine that can
\* take a step; Start, the call of Stop, the commands' calls and the reader of
\* dev.read are the application's choice.
MainSteps == StopReleaseBuffer \/ StopReturn \/ LoopSelectStop \/ LoopDone \/ DecodeDone
LoopSteps ==
    \/ LoopSelectStop \/ LoopSelectWrite \/ LoopSelectDefault \/ LoopWrite \/ LoopRead
    \/ DecodeSync \/ DecodeLength \/ DecodeAssemble
    \/ LoopDeferCloseTimeslot \/ LoopDeferCloseWrite \/ LoopDeferCloseDecoder
    \/ LoopDeferDriverClose \/ LoopDone
DecodeSteps ==
    \/ DecodeSync \/ DecodeLength \/ DecodeAssemble \/ DecodeClosed
    \/ DecodeReject \/ DecodePublish \/ DecodeDrop
    \/ DecodeDeferCloseRead \/ DecodeDone
CallerSteps == LoopSelectWrite \/ CallerSendClosed

FairSpec ==
    /\ Spec
    /\ WF_vars(MainSteps)
    /\ WF_vars(LoopSteps)
    /\ WF_vars(DecodeSteps)
    /\ WF_vars(CallerSteps)
    /\ WF_vars(Crash)

----------------------------------------------------------------------------
(* One call SendBurstTransfer(bChannel, data) with len(data) = bLen, run    *)
(* against a stub that receives every packet from dev.writeInTimeslot.      *)

BurstChannels == (0..MaxChannel) \cup {31}
BurstLens == {8 * n : n \in 0..MaxPackets} \cup {4, 12, 17}

InitBurst ==
    /\ SessionCreated
    /\ inbound = <<>>
    /\ stream = <<>>
    /\ prog = <<>>
    /\ bChannel \in BurstChannels
    /\ bLen \in BurstLens
    /\ bPc = "call"
    /\ bI = 0
    /\ bPackets = 0
    /\ bSent = <<>>

\* if len(data)%8 != 0 { panic }; packets := uint8(len(data) / 8); i := uint8(0)
BurstCall ==
    /\ bPc = "call"
    /\ IF bLen % 8 # 0
       THEN /\ bPc' = "panicked"
            /\ UNCHANGED bPackets
       ELSE /\ bPc' = "loop"
            /\ bPackets' = Packets(bLen)
    /\ bI' = 0
    /\ UNCHANGED <<bChannel, bLen, bSent>>
    /\ UNCHANGED <<sessionVars, envVars, callVars>>
    /\ UNCHANGED histVars

\* the packet the loop body hands to SendBurstTransferPacket at index i
BurstPacket(channel, i, packets) ==
    SendBurstTransferPacket(ChannelSeq(channel, Sequence(i, packets)),
                            DataSlice(SliceLo(i), SliceHi(i)))

\* one iteration of the loop: data[i*8:i*8+8] panics when its bounds are bad
BurstIter ==
    /\ bPc = "loop"
    /\ bI < bPackets
    /\ IF ~SliceOk(SliceLo(bI), SliceHi(bI), bLen)
          \/ BurstPacket(bChannel, bI, bPackets).kind = "panic"
       THEN /\ bPc' = "panicked"
            /\ UNCHANGED <<bI, bSent>>
       ELSE /\ bSent' = Append(bSent, BurstPacket(bChannel, bI, bPackets).msg)
            /\ bI' = U8(bI + 1)
            /\ UNCHANGED bPc
    /\ UNCHANGED <<bChannel, bLen, bPackets>>
    /\ UNCHANGED <<sessionVars, envVars, callVars>>
    /\ UNCHANGED histVars

\* the loop condition i < packets fails: return
BurstReturn ==
    /\ bPc = "loop"
    /\ ~(bI < bPackets)
    /\ bPc' = "returned"
    /\ UNCHANGED <<bChannel, bLen, bI, bPackets, bSent>>
    /\ UNCHANGED <<sessionVars, envVars, callVars>>
    /\ UNCHANGED histVars

NextBurst ==
    \/ BurstCall
    \/ BurstIter
    \/ BurstReturn

SpecBurst == InitBurst /\ [][NextBurst]_vars

----------------------------------------------------------------------------
(* Burst sequencing, C5 to C7, under SpecBurst *)

\* the number of packets of the burst, as a mathematical integer
BurstN == bLen \div 8

\* the sequence field the burst algorithm is stated to give packet i of N
StatedSequence(i, N) ==
    IF i = 0 THEN (IF N = 1 THEN 4 ELSE 0)
    ELSE IF i = N - 1 THEN Or8(((i - 1) % 3) + 1, 4)
    ELSE ((i - 1) % 3) + 1

\* the channel-sequence byte of the i-th message sent (i from 1)
SentChannelSeq(i) == bSent[i].data[1]
\* the eight payload bytes of the i-th message sent
SentPayload(i) == SubSeq(bSent[i].data, 2, 9)

\* C5: for every channel c < 32 and every burst of N >= 2 packets, the
\* channel-sequence byte of packet i is c | (s << 5), with s = 0 for i = 0,
\* s = ((i-1) mod 3) + 1 for 0 < i < N-1, and that value with bit 0b100 set for
\* i = N-1.
BurstSequencing ==
    (bLen % 8 = 0 /\ BurstN >= 2 /\ bChannel < 32)
        => \A i \in 1..Len(bSent) :
              SentChannelSeq(i) = bChannel + 32 * StatedSequence(i - 1, BurstN)

\* C6: the last packet of every burst (i = N-1, N >= 1) has the terminal-flag bit
\* 0b100 set in its sequence field; for N = 1 the one packet's channel-sequence
\* byte is channel | (0b100 << 5).
BurstLastTerminal ==
    (bLen % 8 = 0 /\ BurstN >= 1 /\ Len(bSent) >= BurstN)
        => /\ (SentChannelSeq(BurstN) \div 128) % 2 = 1
           /\ BurstN = 1 => SentChannelSeq(1) = Or8(bChannel, Shl8(4, 5))

\* C7: for every payload whose length is a multiple of 8, SendBurstTransfer
\* does not fail, issues exactly N = len/8 packets, and packet i carries the
\* bytes data[8*i .. 8*i+7].
BurstSplitExact ==
    (bLen % 8 = 0)
        => /\ bPc # "panicked"
           /\ \A i \in 1..Len(bSent) :
                 SentPayload(i) = DataSlice(8 * (i - 1), 8 * (i - 1) + 8)
           /\ bPc = "returned" => Len(bSent) = BurstN

----------------------------------------------------------------------------
(* Shutdown, C1 and C2 *)

\* C1: once Stop() has been called after Start(), Stop() eventually returns, for
\* every interleaving and every transport behaviour, a failed Write included.
StopReturns == (pcMain = "stopSend") ~> (pcMain = "stopped")

\* C2: when Stop() has returned, the pump and the decoder have both exited, the
\* transport has been closed, the byte channel and both outbound channels are
\* closed, and the pump has made no transport call since.
StopQuiesced ==
    pcMain = "stopped"
        => /\ pcLoop = "exited"
           /\ pcDec = "exited"
           /\ driver = "closed"
           /\ {"decoder", "write", "writeInTimeslot"} \subseteq closed
           /\ ~ioAfter

\* Stop() has returned from a session that wrote to the transport and decoded
StopQuiescedWitness ==
    /\ pcMain = "stopped"
    /\ wlog # <<>>
    /\ decCalls # <<>>

----------------------------------------------------------------------------
(* Outbound delivery, C3 and C4 *)

\* the caller is blocked in a send on dev.writeInTimeslot of a running session
TimeslotPending ==
    pcMain = "running" /\ pcCall = "send" /\ offer.ch = "writeInTimeslot"

\* the bytes handed to driver.Write, call by call
Written == [k \in 1..Len(wlog) |-> wlog[k][1]]

\* the call before the current one was a timeslot send, has returned, and its
\* message has been written to the transport
TimeslotDelivered ==
    /\ pcCall = "idle"
    /\ ip > 1
    /\ Call(prog[ip - 1]).ch = "writeInTimeslot"
    /\ \E k \in 1..Len(wlog) : Written[k] = Encode(Call(prog[ip - 1]).msg)

\* C3: on a running session every timeslot send (SendAcknowledgedData,
\* SendBurstTransferPacket, SendBurstTransfer) eventually returns with its
\* message written to the transport.
TimeslotWritesDelivered ==
    TimeslotPending ~> (TimeslotDelivered \/ pcMain # "running")

\* the encodings of the messages of the first k commands that go to dev.write
RECURSIVE QueuedEncodings(_)
QueuedEncodings(k) ==
    IF k = 0 THEN <<>>
    ELSE IF Call(prog[k]).kind = "send" /\ Call(prog[k]).ch = "write"
         THEN Append(QueuedEncodings(k - 1), Encode(Call(prog[k]).msg))
         ELSE QueuedEncodings(k - 1)

\* C4: the transport receives the encodings of the queued commands the caller
\* has completed, in the order issued, each once and whole; only the message
\* the pump has just received is still to be written.
QueuedOrder ==
    LET handed == QueuedEncodings(ip - 1)
    IN  IF pcLoop = "write"
        THEN /\ handed # <<>>
             /\ Written = SubSeq(handed, 1, Len(handed) - 1)
             /\ Encode(d) = handed[Len(handed)]
        ELSE Written = handed

\* three queued commands were written while inbound frames were being decoded
QueuedOrderWitness ==
    /\ Len(prog) >= 3
    /\ Len(wlog) >= 3
    /\ pcMain = "running"
    /\ decCalls # <<>>

----------------------------------------------------------------------------
(* Argument validation, C8 *)

\* the argument shapes the wire format rejects
InvalidArgument(c) ==
    \/ c.op \in {"SendBroadcastData", "SendAcknowledgedData",
                 "SendBurstTransferPacket"} /\ c.b # 8
    \/ c.op = "SendBurstTransfer" /\ c.b % 8 # 0
    \/ c.op = "SetSearchWaveform" /\ c.b \notin {97, 316}

\* C8: a call with an invalid argument fails at the caller and never places a
\* message on an outbound channel; what the transport was given is exactly what
\* the calls before it had handed over.
InvalidEnqueuesNothing ==
    (ip <= Len(prog) /\ InvalidArgument(prog[ip]))
        => /\ pcCall # "send"
           /\ offer = NoOffer
           /\ pcLoop # "write" => Written = QueuedEncodings(ip - 1)

\* a call with an invalid argument has failed on a running session
InvalidEnqueuesNothingWitness ==
    /\ pcMain = "running"
    /\ ip <= Len(prog)
    /\ InvalidArgument(prog[ip])
    /\ pcCall = "panicked"

----------------------------------------------------------------------------
(* The decoder, C9 and C10 *)

\* the pump has forwarded the whole inbound stream and the decoder has taken it
AllDecoded ==
    /\ stream = <<>>
    /\ fwd = <<>>
    /\ pcLoop # "notStarted"
    /\ pcDec = "sync"

IsPrefix(s, t) == Len(s) <= Len(t) /\ s = SubSeq(t, 1, Len(s))

\* the LENGTH bytes of the frames the decoder is run on
FrameLengths == (0..MaxLength) \cup {252}
\* the resync streams and the two frames of each
ResyncStream == [L \in FrameLengths |-> Resync(L)]
ResyncFrames == [L \in FrameLengths |-> <<Corrupt(FrameOf(L, 1)), FrameOf(0, 2)>>]

\* C9: on a frame with a corrupted checksum followed by a valid frame, the
\* decoder passes both frames to the codec, discards the first and hands on
\* exactly one Message, that of the second frame, to a waiting consumer; it
\* neither terminates nor stalls on the first frame.
ResyncEmitsSecond ==
    \A L \in FrameLengths :
        inbound = ResyncStream[L]
            => /\ ~decPanic
               /\ IsPrefix(decCalls, ResyncFrames[L])
               /\ IsPrefix(emitted \o dropped, <<NewMessage(2, <<>>)>>)
               /\ AllDecoded
                    => /\ Len(decCalls) = 2
                       /\ Len(emitted) + Len(dropped) = 1

\* C10: when the byte channel closes on a partial frame (fewer than LENGTH + 2
\* bytes after LENGTH have arrived), the decoder has not called the codec for
\* it, emits no Message and terminates without failing.
PartialFrameDiscarded ==
    inbound \in ProperPartials \cup WrapPartials
        => /\ decCalls = <<>>
           /\ emitted = <<>> /\ dropped = <<>>
           /\ ~decPanic

----------------------------------------------------------------------------
(* Frame assembly, C11, under Spec *)

\* the last n bytes decodeLoop has received
LastReceived(n) == SubSeq(received, Len(received) - n + 1, Len(received))

\* C11: for every LENGTH byte L that follows a SYNC byte the buffer handed to
\* Decode has exactly L+4 bytes, which are the SYNC byte, L and the next L+2
\* bytes received, in order; Decode is never called with a shorter buffer and
\* decodeLoop never fails while it allocates or fills the buffer.
FrameAssembledWhole ==
    /\ ~decPanic
    /\ pcDec = "decode" =>
          /\ Len(buf) = buf[2] + 4
          /\ Len(buf) <= Len(received)
          /\ buf = LastReceived(Len(buf))
    /\ \A k \in 1..Len(decCalls) : Len(decCalls[k]) = decCalls[k][2] + 4

----------------------------------------------------------------------------
(* The select of the pump, C12 and C13, under Spec *)

\* the pump is at its select with Stop() blocked in its send on dev.stopper
StopPending == pcMain = "stopSend"

\* C12: in every iteration of the pump in which both the shutdown signal and a
\* queued outbound message are pending at the select, the pump takes the
\* shutdown signal and does not write the message.
ShutdownBeforeWrite ==
    [][(pcLoop = "select" /\ StopPending /\ SenderOnWrite) => pcLoop' # "write"]_vars

\* C13: while Stop() is pending and the pump has not failed, the pump or the
\* decoder it forwards to can take a step, so that the pump gets back to its
\* select and services the shutdown signal after the Read in progress and the
\* forwarding of its bytes.
PendingStopServiced ==
    (StopPending /\ ~loopPanic) => ENABLED (LoopSteps \/ DecodeSteps)

----------------------------------------------------------------------------
(* Publishing, teardown and forwarding, C14 to C16, under Spec *)

DecodeStep == DecodeReject \/ DecodePublish \/ DecodeDrop

\* C14: the decoder never waits for the consumer of dev.read: with a buffer
\* to decode it always has a step to take, whether or not a receiver is
\* ready; a message is either handed to the receiver or dropped; and while the
\* pump is forwarding bytes, a decoder that has not failed can always take a
\* step, so that the forwarding is never blocked by a slow or absent consumer.
PublishNeverWaits ==
    /\ (pcDec = "decode" /\ ~crashed) => ENABLED DecodeStep
    /\ (pcLoop = "forward" /\ ~decPanic /\ ~crashed) => ENABLED DecodeSteps
    /\ Len(emitted) + Len(dropped) <= Len(decCalls)

\* a message was dropped with no receiver ready, and the decoder is back at
\* waiting for a SYNC byte
PublishNeverWaitsWitness ==
    /\ dropped # <<>>
    /\ consumer = "busy"
    /\ pcDec = "sync"

\* Ant.loop has received from dev.stopper
StopperConsumed == pcMain \notin {"created", "running", "stopSend"}

\* C15: the decoder leaves its loop only after the pump has closed
\* dev.decoder, and the pump closes dev.decoder only after it has consumed the
\* shutdown signal or has failed; so the decoder never sends its completion
\* signal while dev.decoder is open.
TeardownOrdered ==
    /\ pcDec \in {"deferCloseRead", "deferDone", "exited"} => "decoder" \in closed
    /\ "decoder" \in closed => (StopperConsumed \/ loopPanic)

\* C16: the bytes the decoder has received, then the bytes of the Read in
\* progress still to forward, then the bytes not yet read, are the bytes the
\* transport delivers, in order; the pump is at its forwarding loop exactly
\* while bytes of a successful Read remain to be forwarded.
ForwardedExactly ==
    /\ inbound = received \o fwd \o stream
    /\ (pcLoop = "forward") <=> (fwd # <<>>)
    /\ Len(fwd) <= BufferSize

\* the pump is forwarding the second byte of a Read that followed earlier
\* Reads, with more bytes still to read
ForwardedExactlyWitness ==
    /\ pcLoop = "forward"
    /\ Len(fwd) = 1
    /\ Len(received) >= 3
    /\ stream # <<>>

----------------------------------------------------------------------------
(* Failure and ownership, C17 to C19, under Spec *)

BothExited == pcLoop = "exited" /\ pcDec = "exited"

\* C17: after a Write error the session goes on to its stopped state: until
\* both the pump and the decoder have completed, the pump, the decoder or
\* Stop() can take a step.
WriteFailureCompletes ==
    loopPanic => (BothExited \/ ENABLED (StopCall \/ MainSteps \/ LoopSteps \/ DecodeSteps))

InLoopBody == pcLoop \in {"select", "write", "read", "forward"}

\* C18: once Stop() has set dev.buffer to nil the pump has left its loop and
\* never passes dev.buffer to Read nor slices it; dev.buffer is allocated
\* whenever the pump is in its loop.
BufferOwned ==
    /\ buffer = "nil" => (~InLoopBody /\ StopperConsumed)
    /\ InLoopBody => buffer = "alloc"

\* Stop() has released the buffer while the transport still has bytes and the
\* pump is running its deferred calls
BufferOwnedWitness ==
    /\ buffer = "nil"
    /\ stream # <<>>
    /\ pcLoop \notin {"exited", "notStarted"}

\* C19: a command call that reached its send on dev.write while the session
\* was running is never at that send with dev.write closed.
NoSendOnClosed ==
    ~(pcCall = "send" /\ invokedAt = "running" /\ offer.ch = "write"
        /\ "write" \in closed /\ ~loopPanic)

----------------------------------------------------------------------------
(* Restart, C20, under SpecRestart *)

DecoderInLoop == pcDec \in {"sync", "length", "assemble", "decode"}

\* C20: after Start(); Stop() a further Start() yields a running session:
\* until Stop() is called again the pump and the decoder are in their loops
\* and neither has failed.
RestartedSessionRuns ==
    (starts = 2 /\ pcMain = "running") =>
        (InLoopBody /\ ~loopPanic /\ DecoderInLoop /\ ~decPanic)
====
